---- MODULE Spec2Model ----
(***************************************************************************)
(* A model of the three Streamlit pages of bis-streamlit-app:              *)
(*   pages/03_SimpleChat.py  chat against a model-serving endpoint,        *)
(*   pages/04_GenieAI.py     chat against a Genie agent,                   *)
(*   pages/Dashboard.py      the dashboard's cached query layer.           *)
(* Streamlit re-runs a page's whole script on every interaction, one run   *)
(* of one session at a time; every run of a script is one action here.     *)
(* Text is a sequence of tokens (the empty sequence is the empty string).  *)
(***************************************************************************)
EXTENDS Naturals, Sequences, FiniteSets, TLC

VARIABLES
    has_messages,       \* "messages" in st.session_state
    messages,           \* st.session_state.messages
    endpoint_task,      \* the task type the serving endpoint declares (remote)
    events,             \* the calls of the last script run, in order
    rendered,           \* the chat messages the last script run displayed
    last_run,           \* what the last script run was given
    endpoint_requests,  \* the requests query_endpoint was called with
    agent_requests,     \* the requests agent.invoke was called with
    turns,              \* the submitted user turns and how each ended
    log_records,        \* what was written through logger
    unsupported_seen,   \* the capability check has reported unsupported in this session
    now,                \* the dashboard's clock, in seconds
    cache,              \* st.cache_data's entry of each query function
    last_pass,          \* what each query function did in the last dashboard run
    snapshot,           \* the last input given to build_system_prompt
    prompt_result       \* what build_system_prompt did with it

chat_vars == <<has_messages, messages, endpoint_task, events, rendered, last_run,
               endpoint_requests, agent_requests, turns, log_records, unsupported_seen>>
dash_vars == <<now, cache, last_pass>>
prompt_vars == <<snapshot, prompt_result>>
vars == <<chat_vars, dash_vars, prompt_vars>>

-----------------------------------------------------------------------------
(* Bounds *)

MaxTurns == 3

-----------------------------------------------------------------------------
(* Values *)

None == "None"

\* st.chat_input returns None until the user submits a prompt.
NoPrompt == <<>>

Prompts == {<<"Hello">>, <<"What", "is", "my", "balance?">>}

HeaderNames == {"X-Forwarded-Preferred-Username", "X-Forwarded-Email", "X-Forwarded-User"}

\* What the upstream proxy forwards: nothing when run locally, all three when deployed.
HeaderSets ==
    { [h \in {} |-> None],
      [h \in HeaderNames |-> IF h = "X-Forwarded-Email" THEN "ada@example.com"
                             ELSE IF h = "X-Forwarded-User" THEN "u-1" ELSE "ada"] }

TaskTypes == {"llm/v1/chat", "llm/v1/completions"}

Message(role, content) == [role |-> role, content |-> content]

\* The agent's part of a script run that did not call the agent.
NoOutcome == [raised |-> FALSE, result |-> [is_dict |-> FALSE, has_key |-> FALSE, messages |-> <<>>]]

-----------------------------------------------------------------------------
(* Dictionaries and sequences, as Python has them *)

Get(d, k) == IF k \in DOMAIN d THEN d[k] ELSE None

Last(s) == s[Len(s)]

RECURSIVE Flatten(_)
Flatten(ss) == IF ss = <<>> THEN <<>> ELSE Head(ss) \o Flatten(Tail(ss))

Range(s) == {s[i] : i \in 1..Len(s)}

IsPrefix(s, t) == Len(s) <= Len(t) /\ SubSeq(t, 1, Len(s)) = s

-----------------------------------------------------------------------------
(* pages/03_SimpleChat.py: the Identity Extractor and the Prompt Composer *)

\* get_user_info: three header lookups; headers.get gives None for an absent header.
get_user_info(headers) ==
    [user_name  |-> Get(headers, "X-Forwarded-Preferred-Username"),
     user_email |-> Get(headers, "X-Forwarded-Email"),
     user_id    |-> Get(headers, "X-Forwarded-User")]

Digit(d) == <<"0", "1", "2", "3", "4", "5", "6", "7", "8", "9">>[d + 1]

RECURSIVE Digits(_)
Digits(n) == IF n < 10 THEN <<Digit(n)>> ELSE Digits(n \div 10) \o <<Digit(n % 10)>>

Pad3(n) == <<Digit(n \div 100), Digit((n \div 10) % 10), Digit(n % 10)>>

RECURSIVE Grouped(_)
Grouped(n) ==
    IF n < 1000 THEN Digits(n) ELSE Grouped(n \div 1000) \o <<",">> \o Pad3(n % 1000)

Fraction2(cents) == <<".", Digit((cents \div 10) % 10), Digit(cents % 10)>>

\* f"{v:,.2f}" and f"{v:.2f}" of an amount held in cents.
FormatGrouped2f(cents) == Grouped(cents \div 100) \o Fraction2(cents)
Format2f(cents) == Digits(cents \div 100) \o Fraction2(cents)

\* f"- {k}: €{v:,.2f}" for each item of user_info["accounts"], in the mapping's order.
AccountRows(accounts) ==
    [i \in 1..Len(accounts) |->
        <<"- ", accounts[i].label, ": ", "€">> \o FormatGrouped2f(accounts[i].balance)]

\* f"{i+1}. {t['merchant']} - €{t['amount']:.2f}" for each recent transaction.
TransactionRows(txs) ==
    [i \in 1..Len(txs) |->
        Digits(i) \o <<". ", txs[i].merchant, " - ", "€">> \o Format2f(txs[i].amount)]

\* "\n".join(rows), as the lines it puts into the template: the joined text of no
\* rows is the empty string, which is one empty line there.
JoinLines(rows) == IF rows = <<>> THEN << <<>> >> ELSE rows

AccountHeader == <<"Account balances:">>
TransactionHeader == <<"Recent Transactions:">>

PromptKeys == {"accounts", "recent_transactions", "name", "email", "user_id", "preferences"}

Raised(error) == [raised |-> TRUE, error |-> error, value |-> <<>>]
Returned(value) == [raised |-> FALSE, error |-> None, value |-> value]

\* The f-string of build_system_prompt, line by line.
PromptLines(user_info) ==
        << <<>>,
           <<"You are a helpful assistant. Always respond clearly, concisely, and provide actionable information when appropriate.">>,
           <<>>,
           <<"# User Information">>,
           <<"Name: ", user_info.name>>,
           <<"Email: ", user_info.email>>,
           <<"User ID: ", user_info.user_id>>,
           <<>>,
           <<"Number of banking accounts: ">> \o Digits(Len(user_info.accounts)),
           AccountHeader >>
        \o JoinLines(AccountRows(user_info.accounts))
        \o << <<>>, TransactionHeader >>
        \o JoinLines(TransactionRows(user_info.recent_transactions))
        \o << <<>>,
              <<"# Banking Preferences">>,
              <<"Preferred Contact Method: ", user_info.preferences.contact_method>>,
              <<"Budgeting Style: ", user_info.preferences.budgeting_style>>,
              <<>>,
              <<"# Context for RAG">>,
              <<"You have access to the user's banking info above. When answering questions, reference this data when relevant. ">>,
              <<"If the user asks about account balances, recent transactions, or budgeting advice, provide the info from above. ">>,
              <<"Do not make up other sensitive data.">> >>

\* A composer that takes the first account for granted.
build_system_prompt_first_account(user_info) ==
    IF ~(PromptKeys \subseteq DOMAIN user_info) THEN Raised("KeyError")
    ELSE IF user_info.accounts = <<>> THEN Raised("IndexError")
    ELSE Returned(PromptLines(user_info))

\* build_system_prompt: the lines of the f-string, or the KeyError of a subscript
\* of a key user_info does not hold.
build_system_prompt(user_info) ==
    IF ~(PromptKeys \subseteq DOMAIN user_info) THEN Raised("KeyError")
    ELSE Returned(PromptLines(user_info))

-----------------------------------------------------------------------------
(* pages/03_SimpleChat.py and pages/04_GenieAI.py: the Conversation *)

\* An initialisation that does not look at the session first.
InitMessagesAlways(has, msgs) == <<>>

\* if "messages" not in st.session_state: st.session_state.messages = []
InitMessages(has, msgs) == IF has THEN msgs ELSE <<>>

\* A user message that is recorded only once the reply is there.
AppendUserAfterReply(msgs, prompt) == msgs

\* st.session_state.messages.append({"role": "user", "content": prompt})
AppendUser(msgs, prompt) == Append(msgs, Message("user", prompt))

\* A reply that is recorded where it is displayed and again after it.
AppendAssistantTwice(msgs, reply) ==
    Append(Append(msgs, Message("assistant", reply)), Message("assistant", reply))

\* st.session_state.messages.append({"role": "assistant", "content": reply})
AppendAssistant(msgs, reply) == Append(msgs, Message("assistant", reply))

\* if prompt := st.chat_input(...): None and the empty string are both false.
Submitted(prompt) == prompt # NoPrompt

-----------------------------------------------------------------------------
(* pages/03_SimpleChat.py: the endpoint chat page *)

\* model_serving_utils.is_endpoint_supported: whether the task type the endpoint
\* declares is a chat-completions one.
is_endpoint_supported(task) == task = "llm/v1/chat"

\* A page that offers the chat input whatever the check said.
ChatInputAlwaysOffered(supported) == TRUE

\* if not endpoint_supported: (the notice) else: (history, st.chat_input, the turn)
ChatInputOffered(supported) == supported

\* query_endpoint(endpoint_name=..., messages=st.session_state.messages,
\*                max_tokens=400, system_prompt=system_prompt)
EndpointRequest(msgs, system_prompt) ==
    [endpoint_name |-> "SERVING_ENDPOINT", messages |-> msgs, max_tokens |-> 400,
     system_prompt |-> system_prompt]

\* What the inference service does with a request: it answers or the call fails.
Services == {"answers", "fails"}
EndpointReply == <<"Here", "is", "an", "answer">>

SimpleChatRunRecord(supported, offered, prompt, service) ==
    [page |-> "SimpleChat", supported |-> supported, chat_input |-> offered,
     prompt |-> prompt, service |-> service, outcome |-> NoOutcome]

\* One run of the script after the capability check found the endpoint unsupported:
\* the notice is shown, nothing of the else branch runs.
SimpleChatNotice(supported, offered) ==
    /\ events' = <<"is_endpoint_supported", "get_user_info", "st.error">>
    /\ rendered' = <<>>
    /\ last_run' = SimpleChatRunRecord(supported, offered, NoPrompt, None)
    /\ UNCHANGED <<has_messages, messages, endpoint_requests, turns>>

\* One run of the else branch without a submitted prompt: the history is shown.
SimpleChatShow(supported, offered, history) ==
    /\ has_messages' = TRUE
    /\ messages' = history
    /\ events' = <<"is_endpoint_supported", "get_user_info", "render_history", "st.chat_input">>
    /\ rendered' = history
    /\ last_run' = SimpleChatRunRecord(supported, offered, NoPrompt, None)
    /\ UNCHANGED <<endpoint_requests, turns>>

\* One run of the else branch with a submitted prompt: lines 69-126.
SimpleChatTurn(supported, offered, history, headers, prompt, service) ==
    LET with_user == AppendUser(history, prompt)
        user_info == get_user_info(headers)
        system_prompt == build_system_prompt(user_info)
        head == <<"is_endpoint_supported", "get_user_info", "render_history",
                  "st.chat_input", "append_user", "get_user_info", "build_system_prompt">>
        request == EndpointRequest(with_user, system_prompt.value)
    IN  /\ has_messages' = TRUE
        /\ last_run' = SimpleChatRunRecord(supported, offered, prompt, service)
        /\ IF system_prompt.raised
           THEN \* build_system_prompt raised: the run ends at line 110
                /\ messages' = with_user
                /\ rendered' = with_user
                /\ events' = head \o <<system_prompt.error>>
                /\ turns' = Append(turns, [page |-> "SimpleChat", prompt |-> prompt,
                                           replied |-> FALSE, start |-> Len(history)])
                /\ UNCHANGED endpoint_requests
           ELSE IF service = "fails"
           THEN \* query_endpoint raised: the run ends at line 116
                /\ messages' = with_user
                /\ rendered' = with_user
                /\ events' = head \o <<"query_endpoint", "CallFailed">>
                /\ turns' = Append(turns, [page |-> "SimpleChat", prompt |-> prompt,
                                           replied |-> FALSE, start |-> Len(history)])
                /\ endpoint_requests' = Append(endpoint_requests, request)
           ELSE /\ messages' = AppendAssistant(with_user, EndpointReply)
                /\ rendered' = Append(with_user, Message("assistant", EndpointReply))
                /\ events' = head \o <<"query_endpoint", "append_assistant">>
                /\ turns' = Append(turns, [page |-> "SimpleChat", prompt |-> prompt,
                                           replied |-> TRUE, start |-> Len(history)])
                /\ endpoint_requests' = Append(endpoint_requests, request)

\* One run of pages/03_SimpleChat.py.
SimpleChatRun ==
    \E headers \in HeaderSets, input \in Prompts \cup {NoPrompt}, service \in Services :
        LET supported == is_endpoint_supported(endpoint_task)
            offered == ChatInputOffered(supported)
            prompt == IF offered THEN input ELSE NoPrompt
            history == InitMessages(has_messages, messages)
        IN  /\ Submitted(input) => Len(turns) < MaxTurns
            /\ IF ~offered THEN SimpleChatNotice(supported, offered)
               ELSE IF ~Submitted(prompt) THEN SimpleChatShow(supported, offered, history)
               ELSE SimpleChatTurn(supported, offered, history, headers, prompt, service)
            /\ unsupported_seen' = (unsupported_seen \/ ~supported)
            /\ UNCHANGED <<endpoint_task, agent_requests, log_records>>
            /\ UNCHANGED <<dash_vars, prompt_vars>>

\* The serving endpoint is reconfigured: it declares another task type.
EndpointReconfigured ==
    /\ \E t \in TaskTypes \ {endpoint_task} : endpoint_task' = t
    /\ UNCHANGED <<has_messages, messages, events, rendered, last_run,
                   endpoint_requests, agent_requests, turns, log_records,
                   unsupported_seen>>
    /\ UNCHANGED <<dash_vars, prompt_vars>>

-----------------------------------------------------------------------------
(* pages/04_GenieAI.py: the agent chat page *)

HumanMessage(content) == [type |-> "human", content |-> content]
AIMessage(content) == [type |-> "ai", content |-> content]

\* What agent.invoke may return: a mapping with "messages", a mapping without, or
\* a value that is no mapping.
ResultDict(msgs) == [is_dict |-> TRUE, has_key |-> TRUE, messages |-> msgs]
ResultOtherDict == [is_dict |-> TRUE, has_key |-> FALSE, messages |-> <<>>]
ResultNone == [is_dict |-> FALSE, has_key |-> FALSE, messages |-> <<>>]

AgentResults ==
    { ResultDict(<<AIMessage(<<"draft">>), HumanMessage(<<"q">>),
                   AIMessage(<<"final", "answer">>), HumanMessage(<<"echo">>)>>),
      ResultDict(<<HumanMessage(<<"q">>)>>),
      ResultOtherDict,
      ResultNone }

\* agent.invoke returns a result or raises.
AgentOutcomes ==
    {[raised |-> FALSE, result |-> r] : r \in AgentResults}
        \cup {[raised |-> TRUE, result |-> ResultNone]}

\* A request that forwards the session's history, the current prompt last.
AgentRequestWithHistory(msgs, prompt) ==
    [i \in 1..Len(msgs) |->
        IF msgs[i].role = "user" THEN HumanMessage(msgs[i].content)
        ELSE AIMessage(msgs[i].content)]

\* agent.invoke({"messages": [HumanMessage(content=prompt)]})
AgentRequest(msgs, prompt) == <<HumanMessage(prompt)>>

MessageRepr(m) ==
    <<IF m.type = "ai" THEN "AIMessage(" ELSE "HumanMessage(">> \o m.content \o <<")">>

\* str(result)
Str(result) ==
    IF ~result.is_dict THEN <<"None">>
    ELSE IF ~result.has_key THEN <<"{", "}">>
    ELSE <<"{", "'messages'", ": ", "[">>
            \o Flatten([i \in 1..Len(result.messages) |-> MessageRepr(result.messages[i])])
            \o <<"]", "}">>

\* isinstance(m, AIMessage)
IsAI(m) == m.type = "ai"

\* [m for m in result["messages"] if isinstance(m, AIMessage)]
RECURSIVE AIMessagesOf(_)
AIMessagesOf(msgs) ==
    IF msgs = <<>> THEN <<>>
    ELSE (IF IsAI(Head(msgs)) THEN <<Head(msgs)>> ELSE <<>>) \o AIMessagesOf(Tail(msgs))

\* A selection that takes the result's last message, whatever its type.
SelectReplyLastMessage(result) ==
    IF result.is_dict /\ result.has_key /\ result.messages # <<>>
    THEN Last(result.messages).content
    ELSE Str(result)

\* The reply taken from the agent's result: lines 80-84.
SelectReply(result) ==
    IF result.is_dict /\ result.has_key
    THEN LET ai_msgs == AIMessagesOf(result.messages)
         IN  IF ai_msgs # <<>> THEN Last(ai_msgs).content ELSE Str(result)
    ELSE Str(result)

GenieRunRecord(prompt, outcome) ==
    [page |-> "GenieAI", supported |-> TRUE, chat_input |-> TRUE,
     prompt |-> prompt, service |-> None, outcome |-> outcome]

\* One run of the script without a submitted prompt: the history is shown.
GenieShow(history) ==
    /\ messages' = history
    /\ events' = <<"get_user_info", "GenieAgent", "render_history", "st.chat_input">>
    /\ rendered' = history
    /\ last_run' = GenieRunRecord(NoPrompt, NoOutcome)
    /\ UNCHANGED <<agent_requests, turns>>

\* One run of the script with a submitted prompt: lines 71-89.
GenieTurn(history, prompt, outcome) ==
    LET with_user == AppendUser(history, prompt)
        reply == SelectReply(outcome.result)
        head == <<"get_user_info", "GenieAgent", "render_history", "st.chat_input",
                  "append_user", "agent.invoke">>
    IN  /\ last_run' = GenieRunRecord(prompt, outcome)
        /\ agent_requests' = Append(agent_requests, AgentRequest(with_user, prompt))
        /\ IF outcome.raised
           THEN \* agent.invoke raised: the run ends at line 77
                /\ messages' = with_user
                /\ rendered' = with_user
                /\ events' = head \o <<"CallFailed">>
                /\ turns' = Append(turns, [page |-> "GenieAI", prompt |-> prompt,
                                           replied |-> FALSE, start |-> Len(history)])
           ELSE /\ messages' = AppendAssistant(with_user, reply)
                /\ rendered' = Append(with_user, Message("assistant", reply))
                /\ events' = head \o <<"select_reply", "append_assistant">>
                /\ turns' = Append(turns, [page |-> "GenieAI", prompt |-> prompt,
                                           replied |-> TRUE, start |-> Len(history)])

\* One run of pages/04_GenieAI.py.
GenieRun ==
    \E prompt \in Prompts \cup {NoPrompt}, outcome \in AgentOutcomes :
        LET history == InitMessages(has_messages, messages)
        IN  /\ Submitted(prompt) => Len(turns) < MaxTurns
            /\ has_messages' = TRUE
            /\ IF ~Submitted(prompt) THEN GenieShow(history)
               ELSE GenieTurn(history, prompt, outcome)
            /\ UNCHANGED <<endpoint_task, endpoint_requests, log_records, unsupported_seen>>
            /\ UNCHANGED <<dash_vars, prompt_vars>>

-----------------------------------------------------------------------------
(* pages/Dashboard.py: the cached query functions *)

\* ttl=300 of @st.cache_data, in seconds.
TTL == 300

\* The clock advances by TimeStep up to MaxTime.
TimeStep == 120
MaxTime == 600

\* The five query functions, in the order "Load Data" calls them.
QueryFunctions ==
    <<"get_demographics_geo", "get_monthly_transactions", "get_card_distribution",
      "get_crm_stats", "get_complaints_stats">>

NoEntry == [stored |-> FALSE, at |-> 0]
Entry(t) == [stored |-> TRUE, at |-> t]

\* A cache without a time-to-live.
CacheLiveForever(entry, t) == entry.stored

\* @st.cache_data(ttl=300): an entry is returned until ttl seconds after it was stored.
CacheLive(entry, t) == entry.stored /\ t < entry.at + TTL

\* One call of a decorated query function at time t: the cached table, or one
\* sqlQuery whose table is stored; a sqlQuery that raises stores nothing.
CallQuery(entry, t, sql_ok) ==
    IF CacheLive(entry, t)
    THEN [entry |-> entry, did |-> "hit", sql |-> 0, table |-> entry.at, before |-> entry]
    ELSE IF sql_ok
    THEN [entry |-> Entry(t), did |-> "executed", sql |-> 1, table |-> t, before |-> entry]
    ELSE [entry |-> NoEntry, did |-> "failed", sql |-> 1, table |-> 0, before |-> entry]

NotCalled(entry) ==
    [entry |-> entry, did |-> "not_called", sql |-> 0, table |-> 0, before |-> entry]

\* "Load Data": the five calls in order; the first one that raises ends the run.
\* failing is the index of the function whose SQL statement would fail (0: none).
LoadData(c, t, failing) ==
    LET F[i \in 0..Len(QueryFunctions)] ==
            IF i = 0 THEN [raised |-> FALSE, calls |-> <<>>]
            ELSE LET prev == F[i-1]
                     f == QueryFunctions[i]
                     call == IF prev.raised THEN NotCalled(c[f])
                             ELSE CallQuery(c[f], t, i # failing)
                 IN  [raised |-> prev.raised \/ call.did = "failed",
                      calls |-> Append(prev.calls, call)]
    IN F[Len(QueryFunctions)]

\* One run of pages/Dashboard.py.
DashboardRun ==
    \E failing \in 0..Len(QueryFunctions) :
        LET pass == LoadData(cache, now, failing)
        IN  /\ cache' = [f \in DOMAIN cache |->
                            LET i == CHOOSE j \in 1..Len(QueryFunctions) : QueryFunctions[j] = f
                            IN  pass.calls[i].entry]
            /\ last_pass' = [at |-> now, raised |-> pass.raised, calls |-> pass.calls]
            /\ UNCHANGED now
            /\ UNCHANGED <<chat_vars, prompt_vars>>

\* Time passes.
Tick ==
    /\ now + TimeStep <= MaxTime
    /\ now' = now + TimeStep
    /\ UNCHANGED <<cache, last_pass>>
    /\ UNCHANGED <<chat_vars, prompt_vars>>

-----------------------------------------------------------------------------
(* The Prompt Composer on its own: build_system_prompt applied to snapshots *)

MaxAccounts == 2
MaxTransactions == 2

AccountLabels == <<"Checking", "Savings", "Brokerage">>
Balances == {0, 123456789}
Amounts == {5, 1250}

\* Mappings of up to MaxAccounts distinct labels to balances, in insertion order.
AccountMappings ==
    UNION { { a \in [1..n -> [label : {AccountLabels[i] : i \in 1..MaxAccounts}, balance : Balances]] :
                \A i, j \in 1..n : i # j => a[i].label # a[j].label }
            : n \in 0..MaxAccounts }

TransactionLists ==
    UNION { [1..n -> [merchant : {"Grocer"}, amount : Amounts]] : n \in 0..MaxTransactions }

Snapshots ==
    { [name |-> "Ada", email |-> "ada@example.com", user_id |-> "u-1",
       accounts |-> a, recent_transactions |-> t,
       preferences |-> [contact_method |-> "email", budgeting_style |-> "monthly"]]
      : a \in AccountMappings, t \in TransactionLists }

\* What build_system_prompt is given: a snapshot, or what get_user_info returns.
ComposerInputs == Snapshots \cup {get_user_info(h) : h \in HeaderSets}

\* The composer has not been applied to the input yet.
NotComposed == [raised |-> FALSE, error |-> "not composed", value |-> <<>>]

\* build_system_prompt(user_info) on the input at hand.
ComposePrompt ==
    /\ prompt_result = NotComposed
    /\ prompt_result' = build_system_prompt(snapshot)
    /\ UNCHANGED snapshot
    /\ UNCHANGED <<chat_vars, dash_vars>>

-----------------------------------------------------------------------------
(* Specifications *)

SessionInit ==
    /\ has_messages = FALSE
    /\ messages = <<>>
    /\ endpoint_task \in TaskTypes
    /\ events = <<>>
    /\ rendered = <<>>
    /\ last_run = [page |-> None, supported |-> FALSE, chat_input |-> FALSE,
                   prompt |-> NoPrompt, service |-> None, outcome |-> NoOutcome]
    /\ endpoint_requests = <<>>
    /\ agent_requests = <<>>
    /\ turns = <<>>
    /\ log_records = <<>>
    /\ unsupported_seen = FALSE

DashInit ==
    /\ now = 0
    /\ cache = [f \in {QueryFunctions[i] : i \in 1..Len(QueryFunctions)} |-> NoEntry]
    /\ last_pass = [at |-> 0, raised |-> FALSE,
                    calls |-> [i \in 1..Len(QueryFunctions) |-> NotCalled(NoEntry)]]

\* A new session, a cold cache, the composer not in use.
Init ==
    /\ SessionInit
    /\ DashInit
    /\ snapshot = get_user_info([h \in {} |-> None])
    /\ prompt_result = NotComposed

\* The composer about to be applied to any of its inputs.
PromptInit ==
    /\ SessionInit
    /\ DashInit
    /\ snapshot \in ComposerInputs
    /\ prompt_result = NotComposed

ChatNext == SimpleChatRun \/ GenieRun \/ EndpointReconfigured
DashNext == DashboardRun \/ Tick
PromptNext == ComposePrompt

\* The two chat pages of one session.
ChatSpec == Init /\ [][ChatNext]_vars
\* The dashboard.
DashSpec == Init /\ [][DashNext]_vars
\* The Prompt Composer.
PromptSpec == PromptInit /\ [][PromptNext]_vars

Next == ChatNext \/ DashNext \/ PromptNext
Spec == Init /\ [][Next]_vars

-----------------------------------------------------------------------------
(* The session's message list *)

Roles(msgs) == [i \in 1..Len(msgs) |-> msgs[i].role]

\* The roles the submitted turns call for: user then assistant for a turn that got
\* a reply, user alone for a turn that got none.
ExpectedRoles(ts) ==
    Flatten([i \in 1..Len(ts) |->
                IF ts[i].replied THEN <<"user", "assistant">> ELSE <<"user">>])

Replied == {i \in 1..Len(turns) : turns[i].replied}
Unreplied == {i \in 1..Len(turns) : ~turns[i].replied}

\* C1: after any sequence of submitted turns on the two chat pages the message list
\* holds 2 x (turns with a reply) + (turns without) entries, and its roles are user,
\* assistant for each replied turn and user alone for each turn whose reply failed.
C1_TurnCount ==
    /\ Len(messages) = 2 * Cardinality(Replied) + Cardinality(Unreplied)
    /\ Roles(messages) = ExpectedRoles(turns)

C1_Witness ==
    /\ Len(turns) >= 3
    /\ \E i, j \in 1..Len(turns) : i < j /\ ~turns[i].replied /\ turns[j].replied
    /\ \E i \in 1..Len(turns) : turns[i].page = "SimpleChat"

\* C2: the message list only grows at its end: across every script run, with or
\* without a prompt, the list before is a prefix of the list after, and the
\* session's list, once there, stays.
C2_AppendOnly ==
    [][IsPrefix(messages, messages') /\ (has_messages => has_messages')]_vars

C2_Witness ==
    /\ Len(messages) >= 3
    /\ last_run.page = "SimpleChat"
    /\ last_run.chat_input
    /\ ~Submitted(last_run.prompt)

\* C4: a turn whose remote call fails leaves the messages recorded before it as
\* they were, followed by the turn's user message and no assistant message, and
\* the call was made once.
C4_FailedTurn ==
    [][(Len(turns') = Len(turns) + 1 /\ Last(events') = "CallFailed") =>
          /\ messages' = messages \o <<Message("user", Last(turns').prompt)>>
          /\ ~Last(turns').replied
          /\ Len(agent_requests') + Len(endpoint_requests')
                = Len(agent_requests) + Len(endpoint_requests) + 1]_vars

C4_Witness ==
    /\ events # <<>>
    /\ Last(events) = "CallFailed"
    /\ Len(messages) >= 3
    /\ Last(messages).role = "user"

RECURSIVE TurnsOn(_, _)
TurnsOn(page, ts) ==
    IF ts = <<>> THEN <<>>
    ELSE (IF Head(ts).page = page THEN <<Head(ts)>> ELSE <<>>) \o TurnsOn(page, Tail(ts))

GenieTurns == TurnsOn("GenieAI", turns)

\* C8: every request sent to the agent holds exactly one message, the user prompt
\* of the turn it was sent for, whatever the session's history was.
C8_SingleTurnRequest ==
    /\ Len(agent_requests) = Len(GenieTurns)
    /\ \A i \in 1..Len(agent_requests) :
          agent_requests[i] = <<[type |-> "human", content |-> GenieTurns[i].prompt]>>

C8_Witness ==
    /\ Len(agent_requests) >= 2
    /\ Len(messages) >= 4
    /\ last_run.page = "GenieAI"
    /\ Submitted(last_run.prompt)
    /\ \E i \in 1..Len(messages) : messages[i].content # last_run.prompt

-----------------------------------------------------------------------------
(* The endpoint chat page *)

\* C3, as claimed: once the capability check has reported the endpoint unsupported,
\* no later run of the endpoint chat page in the session offers the chat input or
\* calls the inference service.
C3_DisabledForSession ==
    (unsupported_seen /\ last_run.page = "SimpleChat") =>
        /\ ~last_run.chat_input
        /\ "query_endpoint" \notin Range(events)

\* C3, amended: every run of the endpoint chat page starts with the capability
\* check, and a run in which the check reports unsupported offers no chat input,
\* accepts no prompt and makes no call to the inference service. The check is made
\* again on every run and its result is not kept in the session.
C3_FailsClosedPerRun ==
    last_run.page = "SimpleChat" =>
        /\ Head(events) = "is_endpoint_supported"
        /\ last_run.chat_input = last_run.supported
        /\ ~last_run.supported =>
              /\ ~Submitted(last_run.prompt)
              /\ rendered = <<>>
              /\ "query_endpoint" \notin Range(events)
              /\ "append_user" \notin Range(events)

C3_Witness ==
    /\ last_run.page = "SimpleChat"
    /\ ~last_run.supported
    /\ unsupported_seen
    /\ messages # <<>>

SubmittedOnEndpointPage ==
    /\ last_run.page = "SimpleChat"
    /\ last_run.supported
    /\ Submitted(last_run.prompt)

\* C5: on the endpoint chat page, with a supported endpoint and a service that
\* answers, a submitted turn builds the system prompt, calls the Endpoint Client
\* once with the whole history ending in the submitted user message and with that
\* system prompt, and appends the reply as an assistant message right after the
\* user message.
C5_EndpointTurnCompletes ==
    (SubmittedOnEndpointPage /\ last_run.service = "answers") =>
        /\ Len(messages) >= 2
        /\ messages[Len(messages) - 1] = Message("user", last_run.prompt)
        /\ Last(messages).role = "assistant"
        /\ Last(turns).replied
        /\ Len(events) >= 5
        /\ SubSeq(events, Len(events) - 4, Len(events))
              = <<"append_user", "get_user_info", "build_system_prompt",
                  "query_endpoint", "append_assistant">>
        /\ endpoint_requests # <<>>
        /\ Last(endpoint_requests).messages = SubSeq(messages, 1, Len(messages) - 1)

\* C10: the two chat pages work on one message list: what a turn on either page
\* appended is displayed by the other page, and a turn on the endpoint chat page
\* passes it to the Endpoint Client as part of the history.
C10_SharedHistory ==
    /\ (last_run.page # None /\ last_run.chat_input) => rendered = messages
    /\ (SubmittedOnEndpointPage /\ \E i \in 1..Len(turns) : turns[i].page = "GenieAI") =>
          /\ endpoint_requests # <<>>
          /\ \A i \in 1..Last(turns).start :
                /\ i <= Len(Last(endpoint_requests).messages)
                /\ Last(endpoint_requests).messages[i] = messages[i]

-----------------------------------------------------------------------------
(* The agent chat page *)

RepliedOnAgentPage ==
    /\ last_run.page = "GenieAI"
    /\ Submitted(last_run.prompt)
    /\ ~last_run.outcome.raised

AgentResult == last_run.outcome.result

AIPositions(result) == {i \in 1..Len(result.messages) : result.messages[i].type = "ai"}

LastAIContent(result) ==
    result.messages[CHOOSE i \in AIPositions(result) : \A j \in AIPositions(result) : j <= i].content

-----------------------------------------------------------------------------
(* The dashboard's cache *)

Age(call) == last_pass.at - call.before.at

\* C6: a call of a query function made while its cached table is less than 300
\* seconds old executes no SQL statement and returns that table; a call made after
\* the 300 seconds executes the statement exactly once.
C6_CacheWindow ==
    \A i \in 1..Len(QueryFunctions) :
        LET call == last_pass.calls[i]
        IN  (call.did # "not_called" /\ call.before.stored) =>
                /\ Age(call) < 300 =>
                      /\ call.sql = 0
                      /\ call.table = call.before.at
                      /\ cache[QueryFunctions[i]] = call.before
                /\ Age(call) > 300 => call.sql = 1

C6_Witness ==
    \E i, j \in 1..Len(QueryFunctions) :
        /\ last_pass.calls[i].did = "hit"
        /\ Age(last_pass.calls[i]) > 0
        /\ last_pass.calls[j].did = "executed"
        /\ last_pass.calls[j].before.stored
        /\ Age(last_pass.calls[j]) > 300

-----------------------------------------------------------------------------
(* The Prompt Composer *)

IsSnapshot(input) == PromptKeys \subseteq DOMAIN input

\* The section under header holds no row and is closed by next.
EmptySection(lines, header, next) ==
    \E i \in 1..Len(lines) :
        /\ lines[i] = header
        /\ i + 3 <= Len(lines)
        /\ lines[i + 1] = <<>>
        /\ lines[i + 2] = <<>>
        /\ lines[i + 3] = next

\* C9: build_system_prompt does not raise on a snapshot whose accounts or recent
\* transactions are empty; the string it returns holds both section headers, and
\* the header of an empty collection is followed by no row.
C9_EmptySections ==
    (IsSnapshot(snapshot) /\ prompt_result # NotComposed
        /\ (snapshot.accounts = <<>> \/ snapshot.recent_transactions = <<>>)) =>
        /\ ~prompt_result.raised
        /\ AccountHeader \in Range(prompt_result.value)
        /\ TransactionHeader \in Range(prompt_result.value)
        /\ snapshot.accounts = <<>> =>
              EmptySection(prompt_result.value, AccountHeader, TransactionHeader)
        /\ snapshot.recent_transactions = <<>> =>
              EmptySection(prompt_result.value, TransactionHeader, <<"# Banking Preferences">>)

C9_Witness ==
    /\ IsSnapshot(snapshot)
    /\ snapshot.accounts = <<>>
    /\ snapshot.recent_transactions = <<>>
    /\ prompt_result # NotComposed
    /\ ~prompt_result.raised

====
